---- MODULE Spec2Model ----
(***************************************************************************)
(* A model of src/src/parser.rs: the nom parser of a BBCode-like markup.   *)
(* A &str is a sequence of one-character strings.  An IResult is a record  *)
(* [kind, rest, out]: kind is "Ok", "Error" (nom Err::Error, a soft        *)
(* non-match) or "Failure" (nom Err::Failure, raised by cut); rest is the  *)
(* unconsumed input and out the parsed value of an Ok.  The VerboseError   *)
(* payload (context names, positions) is not modelled: no rule of the      *)
(* grammar reads it.  Option<&str> is <<>> for None and <<v>> for Some(v). *)
(***************************************************************************)
EXTENDS Naturals, Sequences, FiniteSets

VARIABLES input, result, pc

vars == <<input, result, pc>>

(***************************************************************************)
(* nom primitives and combinators.  A parser is an operator from the input *)
(* to an IResult; a combinator takes the result of the parser that runs    *)
(* first and, as an operator, what runs on what that parser left.          *)
(***************************************************************************)
Ok(rest, out) == [kind |-> "Ok", rest |-> rest, out |-> out]

Error == [kind |-> "Error", rest |-> <<>>, out |-> <<>>]

Failure == [kind |-> "Failure", rest |-> <<>>, out |-> <<>>]

Drop(s, n) == SubSeq(s, n + 1, Len(s))

Take(s, n) == SubSeq(s, 1, n)

\* The value r handed to what follows.
With(r, K(_)) == K(r)

\* sequence::tuple, preceded, terminated, and combinator::map: K runs on
\* the result of a parser that matched; an error ends the sequence.
Then(r, K(_)) == IF r.kind = "Ok" THEN K(r) ELSE r

\* branch::alt: the next alternative is tried after a soft error only.
OrElse(r, next) == IF r.kind = "Error" THEN next ELSE r

\* combinator::cut: a soft error becomes fatal.
cut(r) == IF r.kind = "Error" THEN Failure ELSE r

\* combinator::not: succeeds, consuming nothing, where the parser fails.
not(r, i) ==
    IF r.kind = "Ok" THEN Error
    ELSE IF r.kind = "Error" THEN Ok(i, <<>>)
    ELSE r

\* Length of the longest prefix of s whose characters all lie in S.
LeadingIn(s, S) ==
    LET stop == {j \in 1..Len(s) : s[j] \notin S}
    IN  IF stop = {} THEN Len(s)
        ELSE (CHOOSE j \in stop : \A k \in stop : j <= k) - 1

\* Length of the longest prefix of s with no character in S.
LeadingNotIn(s, S) ==
    LET stop == {j \in 1..Len(s) : s[j] \in S}
    IN  IF stop = {} THEN Len(s)
        ELSE (CHOOSE j \in stop : \A k \in stop : j <= k) - 1

\* bytes::complete::is_not: the longest non-empty run outside arr.
is_not(arr, i) ==
    With(LeadingNotIn(i, arr),
         LAMBDA n : IF n = 0 THEN Error ELSE Ok(Drop(i, n), Take(i, n)))

\* character::complete::char
char(c, i) ==
    IF Len(i) > 0 /\ i[1] = c THEN Ok(Drop(i, 1), c) ELSE Error

\* character::complete::one_of
one_of(list, i) ==
    IF Len(i) > 0 /\ i[1] \in list THEN Ok(Drop(i, 1), i[1]) ELSE Error

\* bytes::complete::tag
tag(t, i) ==
    IF Len(i) >= Len(t) /\ Take(i, Len(t)) = t THEN Ok(Drop(i, Len(t)), t)
    ELSE Error

Whitespace == {" ", "\t", "\n", "\r"}

\* character::complete::multispace0: never fails, returns what is left.
multispace0(i) == Drop(i, LeadingIn(i, Whitespace))

\* combinator::eof
eof(i) == IF Len(i) = 0 THEN Ok(i, i) ELSE Error

(***************************************************************************)
(* Lexical layer                                                           *)
(***************************************************************************)
\* A slip in parser.rs:29: '=' left out of the characters that end text.
TextSpecialNoEquals == {"\"", "\\", "[", "]", "/"}

\* parser.rs:29, the characters that end a run of text.
TextSpecial == {"\"", "\\", "[", "]", "/", "="}

\* A slip in parser.rs:31: the list written as an ordinary string literal
\* instead of a raw one, so that it holds a quote and a newline where the
\* raw literal holds a quote, a backslash and the letter n.
EscapableUnraw == {"\"", "\n", "[", "]", "/", "="}

\* parser.rs:31, the characters that may follow the backslash.
Escapable == {"\"", "\\", "n", "[", "]", "/", "="}

\* parser.rs:42
WordSpecial == {"\"", "\\", "[", "]", "/", "=", " ", "\t", "\n", "\r"}

\* The loop of bytes::complete::escaped(is_not(chars), '\\', one_of(..)):
\* whole is the input of the call, i what the loop has not consumed yet.
RECURSIVE escaped_loop(_, _)
escaped_loop(whole, i) ==
    IF Len(i) = 0 THEN Ok(<<>>, whole)
    ELSE With(is_not(TextSpecial, i), LAMBDA n :
           IF n.kind = "Ok"
           THEN IF Len(n.rest) = 0 THEN Ok(<<>>, whole)
                ELSE IF Len(n.rest) = Len(i)
                     THEN Ok(n.rest, Take(whole, Len(whole) - Len(n.rest)))
                     ELSE escaped_loop(whole, n.rest)
           ELSE IF i[1] = "\\"
                THEN IF 1 >= Len(i) THEN Error
                     ELSE With(one_of(Escapable, Drop(i, 1)), LAMBDA e :
                            IF e.kind = "Ok"
                            THEN IF Len(e.rest) = 0 THEN Ok(<<>>, whole)
                                 ELSE escaped_loop(whole, e.rest)
                            ELSE e)
                ELSE IF Len(whole) - Len(i) = 0 THEN Error
                     ELSE Ok(i, Take(whole, Len(whole) - Len(i))))

escaped_str(i) == escaped_loop(i, i)

string_quoted(i) ==
    Then(char("\"", i), LAMBDA q :
      cut(Then(escaped_str(q.rest), LAMBDA s :
            Then(char("\"", s.rest), LAMBDA c : Ok(c.rest, s.out)))))

string_without_space(i) == is_not(WordSpecial, multispace0(i))

Text(s) == [type |-> "Text", span |-> s]

EOF == [type |-> "EOF"]

Block(inner, key, value) ==
    [type |-> "Block", inner |-> inner, tag |-> key, value |-> value]

plain_text(i) == Then(escaped_str(i), LAMBDA r : Ok(r.rest, Text(r.out)))

(***************************************************************************)
(* Tag heads and tails                                                     *)
(***************************************************************************)
tag_key(i) == string_without_space(i)

tag_value(i) == OrElse(string_without_space(i), string_quoted(i))

\* separated_pair(key, '=', value), each preceded by multispace0.
tag_head_pair(i) ==
    Then(tag_key(multispace0(i)), LAMBDA k :
      Then(char("=", multispace0(k.rest)), LAMBDA e :
        Then(tag_value(multispace0(e.rest)), LAMBDA v :
          Ok(v.rest, <<k.out, <<v.out>> >>))))

\* The second alternative: the key alone, its value None.
tag_head_bare(i) ==
    Then(tag_key(multispace0(i)), LAMBDA k : Ok(k.rest, <<k.out, <<>> >>))

\* A slip in parser.rs:53-63: the alternatives in the other order, the bare
\* key tried before the key=value pair.
tag_head_keypair_key_first(i) == OrElse(tag_head_bare(i), tag_head_pair(i))

tag_head_keypair(i) == OrElse(tag_head_pair(i), tag_head_bare(i))

\* terminated(p, preceded(multispace0, char(']'))) applied to p's result.
closing_bracket(r) ==
    Then(r, LAMBDA p :
      Then(char("]", multispace0(p.rest)), LAMBDA b : Ok(b.rest, p.out)))

\* A slip in parser.rs:80: the head completed without cut.
tag_head_uncut(i) ==
    Then(char("[", i), LAMBDA o :
      Then(not(char("/", o.rest), o.rest), LAMBDA n :
        closing_bracket(tag_head_keypair(n.rest))))

tag_head(i) ==
    Then(char("[", i), LAMBDA o :
      Then(not(char("/", o.rest), o.rest), LAMBDA n :
        cut(closing_bracket(tag_head_keypair(n.rest)))))

tag_end(i) ==
    Then(tag(<<"[", "/">>, i), LAMBDA o :
      cut(closing_bracket(tag_value(o.rest))))

(***************************************************************************)
(* Elements                                                                *)
(***************************************************************************)
RECURSIVE closed_tag(_), block(_), element(_), many0_element(_, _)

\* multi::many0(element): acc holds the elements collected so far.
many0_element(i, acc) ==
    With(element(i), LAMBDA r :
      IF r.kind = "Error" THEN Ok(i, acc)
      ELSE IF r.kind = "Failure" THEN r
      ELSE IF Len(r.rest) = Len(i) THEN Error
      ELSE many0_element(r.rest, Append(acc, r.out)))

elements(i) == many0_element(i, <<>>)

\* A slip in parser.rs:102-105: the triple taken without verify.
closed_tag_unverified(i) ==
    Then(tag_head(i), LAMBDA h :
      Then(elements(h.rest), LAMBDA c :
        Then(tag_end(c.rest), LAMBDA t :
          Ok(t.rest, <<h.out[1], h.out[2], c.out>>))))

\* A lenient variant of parser.rs:103: a head whose children or tail do not
\* match is taken as a tag without content.
closed_tag_lenient(i) ==
    Then(tag_head(i), LAMBDA h :
      With(Then(elements(h.rest), LAMBDA c :
             Then(tag_end(c.rest), LAMBDA t :
               IF h.out[1] = t.out
               THEN Ok(t.rest, <<h.out[1], h.out[2], c.out>>)
               ELSE Error)),
           LAMBDA r : IF r.kind = "Ok" THEN r
                      ELSE Ok(h.rest, <<h.out[1], h.out[2], <<>> >>)))

closed_tag(i) ==
    Then(tag_head(i), LAMBDA h :
      Then(elements(h.rest), LAMBDA c :
        Then(tag_end(c.rest), LAMBDA t :
          IF h.out[1] = t.out
          THEN Ok(t.rest, <<h.out[1], h.out[2], c.out>>)
          ELSE Error)))

\* A slip in parser.rs:118: the value dropped when the Block is built.
block_without_value(i) ==
    Then(closed_tag(i), LAMBDA r :
      Ok(r.rest, Block(r.out[3], r.out[1], <<>>)))

block(i) ==
    Then(closed_tag(i), LAMBDA r :
      Ok(r.rest, Block(r.out[3], r.out[1], r.out[2])))

element(i) ==
    OrElse(Then(eof(i), LAMBDA e : Ok(e.rest, EOF)),
           OrElse(plain_text(i), block(i)))

\* A slip in parser.rs:136: the loop ended by the element rule's own
\* end-of-input element, which is kept, instead of by many_till's eof.
RECURSIVE many_till_keeps_eof(_, _)
many_till_keeps_eof(i, res) ==
    Then(element(i), LAMBDA r :
      IF r.out.type = "EOF" THEN Ok(r.rest, Append(res, r.out))
      ELSE many_till_keeps_eof(r.rest, Append(res, r.out)))

\* multi::many_till(element, eof): res holds the elements collected so far.
RECURSIVE many_till_element_eof(_, _)
many_till_element_eof(i, res) ==
    With(eof(i), LAMBDA g :
      IF g.kind = "Ok" THEN Ok(g.rest, res)
      ELSE IF g.kind = "Failure" THEN g
      ELSE Then(element(i), LAMBDA r :
             IF Len(r.rest) = Len(i) THEN Error
             ELSE many_till_element_eof(r.rest, Append(res, r.out))))

\* A slip in parser.rs:136: elements used in place of many_till(.., eof).
parse_many0(i) == elements(i)

parse(i) == many_till_element_eof(i, <<>>)

(***************************************************************************)
(* The inputs handed to parse: concatenations of fragments of markup.      *)
(* Up to MaxFrags fragments of any kind (tags, text, stray special         *)
(* characters, a head cut short), or up to MaxTags of the plainer tags and *)
(* texts (so that blocks nest inside blocks).                              *)
(***************************************************************************)
MaxFrags == 3

MaxTags == 4

TagFragments ==
    { <<"[", "a", "]">>,
      <<"[", "/", "a", "]">>,
      <<"[", "b", "=", "c", "]">>,
      <<"[", "/", "b", "]">>,
      <<"[", "a", "=", "\"", "c", " ", "d", "\"", "]">>,
      <<"x">> }

SpacedFragments ==
    { <<"[", "/", "\"", "a", "\"", "]">>,
      <<"[", " ", "a", " ", "]">>,
      <<"\\", "n">> }

StrayFragments ==
    { <<"[", "b", "=", "\"">>,
      <<"[">>, <<"]">>, <<"=">>, <<"\"">>, <<"\\">>, <<"/">> }

Fragments == TagFragments \cup SpacedFragments \cup StrayFragments

RECURSIVE Flatten(_)
Flatten(fs) == IF fs = <<>> THEN <<>> ELSE Head(fs) \o Flatten(Tail(fs))

FragSeqs(F, n) == UNION {[1..k -> F] : k \in 0..n}

Inputs ==
    {Flatten(fs) : fs \in FragSeqs(Fragments, MaxFrags)}
      \cup {Flatten(fs) : fs \in FragSeqs(TagFragments, MaxTags)}

NotRun == [kind |-> "NotRun", rest |-> <<>>, out |-> <<>>]

Init ==
    /\ input \in Inputs
    /\ result = NotRun
    /\ pc = "ready"

Parse ==
    /\ pc = "ready"
    /\ result' = parse(input)
    /\ pc' = "done"
    /\ UNCHANGED input

Next == Parse

Spec == Init /\ [][Next]_vars

(***************************************************************************)
(* Vocabulary of the properties: the markup as the documentation states    *)
(* it, written without the parser's rules.                                 *)
(***************************************************************************)
Done == pc = "done"

Succeeded == Done /\ result.kind = "Ok"

Failed == Done /\ result.kind \in {"Error", "Failure"}

\* The characters that are special in text, and what may follow a backslash.
SpecialChars == {"\"", "\\", "[", "]", "/", "="}

EscapeTargets == {"\"", "\\", "n", "[", "]", "/", "="}

\* s holds no unescaped special character and no broken escape sequence.
RECURSIVE IsPlain(_)
IsPlain(s) ==
    IF s = <<>> THEN TRUE
    ELSE IF s[1] = "\\"
         THEN Len(s) >= 2 /\ s[2] \in EscapeTargets /\ IsPlain(Drop(s, 2))
         ELSE s[1] \notin SpecialChars /\ IsPlain(Tail(s))

HasEscape(s) == \E j \in 1..Len(s) : s[j] = "\\"

\* The elements of a sequence and of the children of its Blocks, at any depth.
RECURSIVE Nodes(_)
Nodes(es) ==
    IF es = <<>> THEN {}
    ELSE LET e == Head(es)
         IN  {e} \cup (IF e.type = "Block" THEN Nodes(e.inner) ELSE {})
                 \cup Nodes(Tail(es))

\* C6: whenever parse returns Ok the remainder is empty, and an input whose
\* prefix parses but whose next position starts no element is refused.
C6_AllConsumed ==
    Done =>
      /\ result.kind = "Ok" => result.rest = <<>>
      /\ \A k \in 0..(Len(input) - 1) :
            (parse(Take(input, k)).kind = "Ok"
               /\ element(Drop(input, k)).kind # "Ok")
            => result.kind # "Ok"

C6_Witness ==
    /\ Failed
    /\ \E k \in 1..(Len(input) - 1) :
          /\ parse(Take(input, k)).kind = "Ok"
          /\ element(Drop(input, k)).kind = "Error"

\* C8: the end-of-input sentinel occurs nowhere in a returned tree.
C8_NoEOF ==
    Succeeded => \A e \in Nodes(result.out) : e.type # "EOF"

C8_Witness ==
    /\ Succeeded
    /\ \E e \in Nodes(result.out) : e.type = "Block" /\ e.inner # <<>>
    /\ \A e \in Nodes(result.out) : e.type # "EOF"

\* C3 as stated: every plain text parses to one Text element spanning it.
C3_PlainTextAsStated ==
    (Done /\ IsPlain(input)) => result = Ok(<<>>, <<Text(input)>>)

\* C3, amended: every non-empty plain text parses to exactly one Text
\* element whose span is the whole input, escape sequences kept verbatim.
C3_PlainText ==
    (Done /\ IsPlain(input) /\ input # <<>>)
    => result = Ok(<<>>, <<Text(input)>>)

C3_Witness ==
    /\ Done
    /\ IsPlain(input)
    /\ HasEscape(input)
    /\ Len(input) >= 3
    /\ result = Ok(<<>>, <<Text(input)>>)

(***************************************************************************)
(* The tags of an input as a reader meets them, left to right: outside     *)
(* tags a backslash escapes the next character, an unescaped '[' starts a  *)
(* head or (before '/') a tail, and any other unescaped special character  *)
(* is out of place.  The scan stops at the first thing that is malformed.  *)
(***************************************************************************)
Ev(kind, name) == [kind |-> kind, name |-> name]

RECURSIVE Events(_)
Events(i) ==
    IF i = <<>> THEN <<>>
    ELSE IF i[1] = "\\"
         THEN IF Len(i) >= 2 /\ i[2] \in EscapeTargets
              THEN Events(Drop(i, 2))
              ELSE <<Ev("junk", <<>>)>>
    ELSE IF i[1] = "["
         THEN IF Len(i) >= 2 /\ i[2] = "/"
              THEN LET t == tag_end(i)
                   IN  IF t.kind = "Ok"
                       THEN <<Ev("close", t.out)>> \o Events(t.rest)
                       ELSE <<Ev("tailfail", <<>>)>>
              ELSE LET h == tag_head(i)
                   IN  IF h.kind = "Ok"
                       THEN <<Ev("open", h.out[1])>> \o Events(h.rest)
                       ELSE <<Ev("headfail", <<>>)>>
    ELSE IF i[1] \in SpecialChars THEN <<Ev("junk", <<>>)>>
    ELSE Events(Tail(i))

\* What the first irregularity of a sequence of events is; open holds the
\* names of the heads not closed yet, innermost first.
RECURSIVE Shape(_, _)
Shape(evs, open) ==
    IF evs = <<>> THEN (IF open = <<>> THEN "balanced" ELSE "unclosed")
    ELSE LET e == Head(evs)
         IN  CASE e.kind = "open" -> Shape(Tail(evs), <<e.name>> \o open)
               [] e.kind = "close" ->
                    IF open = <<>> THEN "stray"
                    ELSE IF Head(open) # e.name THEN "mismatch"
                    ELSE Shape(Tail(evs), Tail(open))
               [] e.kind = "tailfail" ->
                    IF open = <<>> THEN "stray" ELSE "tailfail"
               [] OTHER -> e.kind

InputShape == Shape(Events(input), <<>>)

\* Some tail closes a head of another name (tails that close nothing are
\* passed over).
RECURSIVE HasMismatch(_, _)
HasMismatch(evs, open) ==
    IF evs = <<>> THEN FALSE
    ELSE LET e == Head(evs)
         IN  CASE e.kind = "open" -> HasMismatch(Tail(evs), <<e.name>> \o open)
               [] e.kind = "close" ->
                    IF open = <<>> THEN HasMismatch(Tail(evs), open)
                    ELSE IF Head(open) # e.name THEN TRUE
                    ELSE HasMismatch(Tail(evs), Tail(open))
               [] OTHER -> FALSE

EventNames(evs, kind) ==
    LET keep(e) == e.kind = kind
    IN  [j \in 1..Len(SelectSeq(evs, keep)) |-> SelectSeq(evs, keep)[j].name]

\* The tags of the Blocks of a tree in the order their heads open, and in
\* the order their tails close.
RECURSIVE OpeningOrder(_)
OpeningOrder(es) ==
    IF es = <<>> THEN <<>>
    ELSE LET e == Head(es)
         IN  (IF e.type = "Block" THEN <<e.tag>> \o OpeningOrder(e.inner)
              ELSE <<>>) \o OpeningOrder(Tail(es))

RECURSIVE ClosingOrder(_)
ClosingOrder(es) ==
    IF es = <<>> THEN <<>>
    ELSE LET e == Head(es)
         IN  (IF e.type = "Block" THEN ClosingOrder(e.inner) \o <<e.tag>>
              ELSE <<>>) \o ClosingOrder(Tail(es))

\* C2: an input holding a tail that closes a head of another name is
\* refused, and in a returned tree every Block was closed under the name it
\* was opened with: the names of the heads and of the tails of the input
\* are the tags of the Blocks in opening and in closing order.
C2_MismatchFails ==
    Done =>
      /\ HasMismatch(Events(input), <<>>) => result.kind # "Ok"
      /\ result.kind = "Ok" =>
           /\ EventNames(Events(input), "open") = OpeningOrder(result.out)
           /\ EventNames(Events(input), "close") = ClosingOrder(result.out)

\* A head is closed under another name inside a block that is itself
\* closed under its own name.
C2_Witness ==
    /\ Failed
    /\ InputShape = "mismatch"
    /\ Len(Events(input)) = 4
    /\ Events(input)[1].kind = "open" /\ Events(input)[2].kind = "open"
    /\ Events(input)[3].kind = "close" /\ Events(input)[4].kind = "close"
    /\ Events(input)[4].name = Events(input)[1].name

\* C9: an input whose tags are well formed and properly closed as far as
\* they go, but that ends with a head still open, is refused.
C9_UnclosedFails ==
    (Done /\ InputShape = "unclosed") => result.kind \in {"Error", "Failure"}

C9_Witness ==
    /\ Failed
    /\ InputShape = "unclosed"
    /\ Len(EventNames(Events(input), "close")) >= 1

\* C4: when the first irregularity of the input is a head that cannot be
\* completed after its '[', or inside a block a tail that cannot be
\* completed after its '[/', parse returns a fatal failure.
C4_CommittedFailureIsFatal ==
    (Done /\ InputShape \in {"headfail", "tailfail"})
    => result.kind = "Failure"

C4_Witness ==
    /\ Done
    /\ InputShape = "headfail"
    /\ Len(EventNames(Events(input), "open")) >= 1
    /\ \E j \in 1..(Len(input) - 1) : input[j] = "=" /\ input[j + 1] = "\""
    /\ result.kind = "Failure"

\* No two Text elements are neighbours in es or in the children of a Block.
RECURSIVE NoAdjacentText(_)
NoAdjacentText(es) ==
    /\ \A j \in 1..(Len(es) - 1) :
          ~(es[j].type = "Text" /\ es[j + 1].type = "Text")
    /\ \A j \in 1..Len(es) :
          es[j].type = "Block" => NoAdjacentText(es[j].inner)

\* C10: an unescaped special character or a broken escape where text is
\* read makes the parse fail; every Text span of a returned tree is
\* non-empty and plain, and no two Text elements are neighbours.
C10_TextIsClean ==
    Done =>
      /\ InputShape = "junk" => result.kind \in {"Error", "Failure"}
      /\ result.kind = "Ok" =>
           /\ \A e \in Nodes(result.out) :
                 e.type = "Text" => (e.span # <<>> /\ IsPlain(e.span))
           /\ NoAdjacentText(result.out)

C10_Witness ==
    /\ Failed
    /\ InputShape = "junk"
    /\ Len(EventNames(Events(input), "open")) >= 1
    /\ \E j \in 1..Len(input) : input[j] = "="

(***************************************************************************)
(* Well-formed tag pairs, whitespace in tags, and writing a tree back.     *)
(***************************************************************************)
Quote == <<"\"">>

HeadBare(name) == <<"[">> \o name \o <<"]">>

HeadUnquoted(name, v) == <<"[">> \o name \o <<"=">> \o v \o <<"]">>

HeadQuoted(name, v) ==
    <<"[">> \o name \o <<"=">> \o Quote \o v \o Quote \o <<"]">>

TailOf(name) == <<"[", "/">> \o name \o <<"]">>

\* The three forms of a head, each with the tag and the value it stands for.
PairForms ==
    { [head |-> HeadBare(<<"a">>), tag |-> <<"a">>, value |-> <<>>],
      [head |-> HeadUnquoted(<<"b">>, <<"c">>), tag |-> <<"b">>,
       value |-> << <<"c">> >>],
      [head |-> HeadQuoted(<<"a">>, <<"c", " ", "d">>), tag |-> <<"a">>,
       value |-> << <<"c", " ", "d">> >>] }

\* input is f.head, then some content, then the tail of f.tag.
Wraps(f) ==
    /\ Len(input) >= Len(f.head) + Len(TailOf(f.tag))
    /\ Take(input, Len(f.head)) = f.head
    /\ Drop(input, Len(input) - Len(TailOf(f.tag))) = TailOf(f.tag)

ContentOf(f) ==
    SubSeq(input, Len(f.head) + 1, Len(input) - Len(TailOf(f.tag)))

\* C1: a head, a content that parses on its own and the tail of the same
\* name parse to exactly one Block with the head's tag and value, whose
\* children are what the content parses to.
C1_WellFormedPair ==
    Done =>
      \A f \in PairForms :
        (Wraps(f) /\ parse(ContentOf(f)).kind = "Ok")
        => result = Ok(<<>>, <<Block(parse(ContentOf(f)).out, f.tag, f.value)>>)

C1_Witness ==
    /\ Succeeded
    /\ \E f \in PairForms :
          /\ f.value # <<>>
          /\ Wraps(f)
          /\ parse(ContentOf(f)).kind = "Ok"
          /\ \E e \in Nodes(parse(ContentOf(f)).out) :
                e.type = "Block" /\ e.value # <<>>
          /\ result.out = <<Block(parse(ContentOf(f)).out, f.tag, f.value)>>

Blank == {" ", "\t", "\n", "\r"}

\* The places of an input where a tag has a token boundary, each as the
\* number of characters before it: after '[' of a head and '[/' of a tail,
\* on both sides of '=' and before ']'.  p is the character looked at and
\* mode tells whether it lies in text, in a tag or in a quoted token.
RECURSIVE Boundaries(_, _, _)
Boundaries(i, p, mode) ==
    IF p > Len(i) THEN {}
    ELSE CASE mode = "text" ->
                IF i[p] = "\\" THEN Boundaries(i, p + 2, "text")
                ELSE IF i[p] = "["
                     THEN IF p < Len(i) /\ i[p + 1] = "/"
                          THEN {p + 1} \cup Boundaries(i, p + 2, "tag")
                          ELSE {p} \cup Boundaries(i, p + 1, "tag")
                ELSE Boundaries(i, p + 1, "text")
           [] mode = "tag" ->
                IF i[p] = "\"" THEN Boundaries(i, p + 1, "quote")
                ELSE IF i[p] = "="
                     THEN {p - 1, p} \cup Boundaries(i, p + 1, "tag")
                ELSE IF i[p] = "]"
                     THEN {p - 1} \cup Boundaries(i, p + 1, "text")
                ELSE Boundaries(i, p + 1, "tag")
           [] OTHER ->
                IF i[p] = "\\" THEN Boundaries(i, p + 2, "quote")
                ELSE IF i[p] = "\"" THEN Boundaries(i, p + 1, "tag")
                ELSE Boundaries(i, p + 1, "quote")

InsertAt(s, k, c) == Take(s, k) \o <<c>> \o Drop(s, k)

\* C5: for an input that parses, a space, tab or newline put at any token
\* boundary of a head or a tail gives the same tree.
C5_WhitespaceAtBoundaries ==
    Succeeded =>
      \A k \in Boundaries(input, 1, "text") : \A c \in {" ", "\t", "\n"} :
         parse(InsertAt(input, k, c)) = result

\* The tree written back: a Text as its span, a Block as [tag] or
\* [tag=value], its children, and [/tag].
RECURSIVE Serialise(_)
Serialise(es) ==
    IF es = <<>> THEN <<>>
    ELSE LET e == Head(es)
         IN  (CASE e.type = "Text" -> e.span
                [] e.type = "Block" ->
                     (IF e.value = <<>> THEN HeadBare(e.tag)
                      ELSE HeadUnquoted(e.tag, e.value[1]))
                       \o Serialise(e.inner) \o TailOf(e.tag)
                [] OTHER -> <<>>)
             \o Serialise(Tail(es))

\* No whitespace and no quote between an unescaped '[' and the next ']'.
RECURSIVE TagsBare(_, _)
TagsBare(i, inTag) ==
    IF i = <<>> THEN TRUE
    ELSE IF inTag
         THEN IF i[1] = "]" THEN TagsBare(Tail(i), FALSE)
              ELSE i[1] \notin (Blank \cup {"\""}) /\ TagsBare(Tail(i), TRUE)
    ELSE IF i[1] = "\\" THEN TagsBare(Drop(i, 2), FALSE)
    ELSE TagsBare(Tail(i), i[1] = "[")

\* C7 as stated: writing the returned tree back gives the input.
C7_RoundTripAsStated ==
    Succeeded => Serialise(result.out) = input

\* C7, amended: writing the returned tree back gives the input when no tag
\* of the input holds whitespace or a quoted token.
C7_RoundTrip ==
    (Succeeded /\ TagsBare(input, FALSE)) => Serialise(result.out) = input

C7_Witness ==
    /\ Succeeded
    /\ TagsBare(input, FALSE)
    /\ \E e \in Nodes(result.out) :
          e.type = "Block" /\ e.value # <<>> /\ e.inner # <<>>
    /\ \E e \in Nodes(result.out) : e.type = "Text" /\ HasEscape(e.span)
    /\ Serialise(result.out) = input

====
